---- MODULE Spec2Model ----
(***************************************************************************)
(* Plate generator: the plates store (usePlatesStore.js), the inputs of   *)
(* a plate row (NumberInput.jsx), the cover mapping and mirror tiler       *)
(* (imageUtils.js), and the layout, motif-resolution effect and export of  *)
(* CanvasPreview.jsx.                                                      *)
(*                                                                         *)
(* Units.  Plate dimensions are stored by the program in centimetres as    *)
(* multiples of 0.1; the model keeps them as integers in tenths of a       *)
(* centimetre (widthCm = 1200 is 120 cm).  Arguments that the code rounds  *)
(* to 0.1 cm are given in hundredths, so that the rounding is a real       *)
(* step.  Fractions are exact rationals <<n, d>>; IEEE-754 rounding of     *)
(* the JavaScript doubles is not part of the model.                        *)
(***************************************************************************)
EXTENDS Integers, Sequences, FiniteSets, TLC

VARIABLES
    plates,         \* store: the ordered plate sequence
    motifUrl,       \* store: the shared motif reference
    unit,           \* store: active display unit, "cm" or "in"
    mirrorEnabled,  \* store: optional UI flag
    nextId,         \* the next value uuid() hands out
    ops,            \* number of budgeted operations performed so far
    lastOp,         \* the last operation and its arguments (history)
    mounted,        \* CanvasPreview is mounted
    imgInfo,        \* CanvasPreview state: << >> (null) or << [url, w, h] >>
    virtual,        \* CanvasPreview memo: [totalW, maxH]
    cycles,         \* the motif-resolution cycles started so far, in order
    exports,        \* the handleExport runs started so far, in order
    reports,        \* what the catch blocks have reported so far (history)
    coverArgs,      \* computeCover: the arguments of the call
    cover,          \* computeCover: << >> or << the returned record >>
    mirrorArgs,     \* mirrorExtendHorizontal: [unit, targetWidth, maxWidth]
    mirrorOut,      \* mirrorExtendHorizontal: << >> or << the outcome >>
    scaleArgs,      \* preview memo: [width, height, totalW, maxH]
    scaleOut,       \* preview memo: << >> or << the memo value >>
    strip,          \* mirrorExtendHorizontal: << >> or << the scratch canvas >>
    input,          \* NumberInput: << >> or << the input last given the focus >>
    placed          \* CanvasPreview: what the render and the export have placed

storeVars == <<plates, motifUrl, unit, mirrorEnabled>>
previewVars == <<mounted, imgInfo, virtual, cycles, exports, reports>>
coverVars == <<coverArgs, cover>>
mirrorVars == <<mirrorArgs, mirrorOut>>
scaleVars == <<scaleArgs, scaleOut>>
pureVars == <<coverVars, mirrorVars, scaleVars, strip, input, placed>>
vars == <<plates, motifUrl, unit, mirrorEnabled, nextId, ops, lastOp,
          mounted, imgInfo, virtual, cycles, exports, reports,
          coverArgs, cover,
          mirrorArgs, mirrorOut, scaleArgs, scaleOut, strip, input, placed>>

----------------------------------------------------------------------------
(* Bounds of the exploration *)

MaxOps == 2         \* operations other than the UI's plain addPlate()

----------------------------------------------------------------------------
(* Program constants, in tenths of a centimetre where they are lengths *)

MaxPlates == 10
MinWidth == 200
MaxWidth == 3000
MinHeight == 300
MaxHeight == 1280
DefaultAddWidth == 10000    \* plate.widthCm ?? 100, in hundredths
DefaultAddHeight == 6000    \* plate.heightCm ?? 60, in hundredths

Undefined == -1000000       \* an argument that was not passed
NaN == -999999              \* a non-numeric index argument
DefaultUrl == "rueckwand24"

(* Math.min / Math.max on integers *)
Min(a, b) == IF a <= b THEN a ELSE b
Max(a, b) == IF a >= b THEN a ELSE b

(* clamp(v, min, max) = Math.min(max, Math.max(min, v)) *)
clamp(v, lo, hi) == Min(hi, Max(lo, v))

(* Math.round(x * 10) for x given in hundredths: floor(x/10 + 1/2) *)
RoundToTenths(h) == (h + 5) \div 10

(* the module-level default plate set; its id is created once *)
defaultPlates == << [id |-> 0, widthCm |-> 1200, heightCm |-> 600] >>

----------------------------------------------------------------------------
(* Array helpers *)

(* state.plates.filter((p) => p.id !== id) *)
RECURSIVE FilterOutId(_, _)
FilterOutId(s, id) ==
    IF s = << >> THEN << >>
    ELSE IF Head(s).id # id THEN << Head(s) >> \o FilterOutId(Tail(s), id)
         ELSE FilterOutId(Tail(s), id)

(* the start index of Array.prototype.splice, as the array sees it:
   NaN counts as 0, a negative index counts from the end, and the result
   is kept within 0..length *)
SpliceStart(x, len) ==
    IF x = NaN THEN 0
    ELSE IF x < 0 THEN Max(len + x, 0)
    ELSE Min(x, len)

(* arr.splice(i, 1): the array without the element at 0-based index i *)
SpliceOut(arr, i) ==
    LET at == SpliceStart(i, Len(arr))
    IN IF at >= Len(arr) THEN arr
       ELSE [k \in 1..(Len(arr) - 1) |-> IF k <= at THEN arr[k] ELSE arr[k + 1]]

(* arr.splice(i, 0, item): the array with item inserted before index i *)
SpliceIn(arr, i, item) ==
    LET at == SpliceStart(i, Len(arr))
    IN [k \in 1..(Len(arr) + 1) |->
          IF k <= at THEN arr[k]
          ELSE IF k = at + 1 THEN item
          ELSE arr[k - 1]]

(* { ...p, ...patch } for a patch whose keys are plate fields *)
Spread(p, patch) ==
    [f \in DOMAIN p |-> IF f \in DOMAIN patch THEN patch[f] ELSE p[f]]

----------------------------------------------------------------------------
(* Store operations: each gives the next value of the plates field.  A     *)
(* result equal to the argument stands for "return state" (no change).     *)

(* faulty variant: the guard forgets the target index *)
MoveOutOfRangeFromOnly(from, to, len) ==
    from # NaN /\ (from < 0 \/ from >= len)
(* the guard of movePlate; a JavaScript comparison with NaN is false *)
MoveOutOfRange(from, to, len) ==
    (from # NaN /\ (from < 0 \/ from >= len))
        \/ (to # NaN /\ (to < 0 \/ to >= len))

(* faulty variant: no 10-plate limit *)
addPlateNoLimit(ps, id, w, h) ==
    Append(ps,
       [id |-> id,
        widthCm |-> clamp(RoundToTenths(IF w = Undefined
                               THEN DefaultAddWidth ELSE w),
                          MinWidth, MaxWidth),
        heightCm |-> clamp(RoundToTenths(IF h = Undefined
                               THEN DefaultAddHeight ELSE h),
                           MinHeight, MaxHeight)])
addPlateResult(ps, id, w, h) ==
    IF Len(ps) >= MaxPlates THEN ps
    ELSE Append(ps,
           [id |-> id,
            widthCm |-> clamp(RoundToTenths(IF w = Undefined
                                   THEN DefaultAddWidth ELSE w),
                              MinWidth, MaxWidth),
            heightCm |-> clamp(RoundToTenths(IF h = Undefined
                                   THEN DefaultAddHeight ELSE h),
                               MinHeight, MaxHeight)])

(* faulty variant: neither of the two guards *)
removeByIdNoGuard(ps, id) == FilterOutId(ps, id)
removeByIdResult(ps, id) ==
    IF Len(ps) <= 1 THEN ps
    ELSE LET next == FilterOutId(ps, id)
         IN IF Len(next) > 0 THEN next ELSE ps

updatePlateResult(ps, id, patch) ==
    [k \in 1..Len(ps) |-> IF ps[k].id = id THEN Spread(ps[k], patch) ELSE ps[k]]

(* faulty variant: the two plates are exchanged instead of one moved *)
movePlateSwap(ps, from, to) ==
    IF MoveOutOfRange(from, to, Len(ps)) THEN ps
    ELSE LET f == SpliceStart(from, Len(ps)) + 1
             t == SpliceStart(to, Len(ps)) + 1
         IN [k \in 1..Len(ps) |->
               IF k = f THEN ps[t] ELSE IF k = t THEN ps[f] ELSE ps[k]]
movePlateResult(ps, from, to) ==
    IF MoveOutOfRange(from, to, Len(ps)) THEN ps
    ELSE LET item == ps[SpliceStart(from, Len(ps)) + 1]
             arr == SpliceOut(ps, from)
         IN SpliceIn(arr, to, item)

----------------------------------------------------------------------------
(* Arguments the operations are called with *)

(* addPlate({widthCm, heightCm}) in hundredths of a centimetre *)
AddArgs == { <<1000, 99999>>, <<25005, Undefined>>, <<99999, 2994>> }

(* updatePlate patches, in tenths: any partial plate *)
PatchList == << [widthCm |-> 2500], [heightCm |-> 1280], [widthCm |-> 150],
                [heightCm |-> -50], << >>, [id |-> 0] >>

UrlArgs == { "", "wide.jpg", "tall.jpg" }

PlateIds(ps) == { ps[k].id : k \in 1..Len(ps) }

(* ids to call removeById and updatePlate with: the first and the last
   plate's and one that no plate has *)
IdArgs == { plates[1].id, plates[Len(plates)].id, nextId }

(* indices to call movePlate with: every index from -1 to the length for
   a short sequence; for a long one both ends, their outer neighbours and
   the second position; and a non-number *)
IndexArgs ==
    IF Len(plates) <= 3
    THEN (-1..Len(plates)) \cup {NaN}
    ELSE { -1, 0, 1, Len(plates) - 1, Len(plates), NaN }

----------------------------------------------------------------------------
(* The store in isolation: every action is one call of a store function *)

NoOp == [name |-> "init", a |-> 0, b |-> 0, changed |-> FALSE]

InitStore ==
    /\ plates = defaultPlates
    /\ motifUrl = DefaultUrl
    /\ unit = "cm"
    /\ mirrorEnabled = FALSE
    /\ nextId = 1
    /\ ops = 0
    /\ lastOp = NoOp

InitIdlePreview ==
    /\ mounted = FALSE
    /\ imgInfo = << >>
    /\ virtual = [totalW |-> 0, maxH |-> 0]
    /\ cycles = << >>
    /\ exports = << >>
    /\ reports = {}

InitIdleCover ==
    /\ coverArgs = << >>
    /\ cover = << >>

InitIdleMirror ==
    /\ mirrorArgs = << >>
    /\ mirrorOut = << >>

InitIdleScale ==
    /\ scaleArgs = << >>
    /\ scaleOut = << >>

InitIdleStrip == strip = << >>

InitIdleInput == input = << >>

InitIdlePlaced == placed = [styles |-> << >>, drawn |-> << >>]

InitIdlePure ==
    /\ InitIdleCover /\ InitIdleMirror /\ InitIdleScale
    /\ InitIdleStrip /\ InitIdleInput /\ InitIdlePlaced

Init == InitStore /\ InitIdlePreview /\ InitIdlePure

(* addPlate(plate): uuid() is called only when the plate is created *)
StoreAddPlate(w, h) ==
    /\ plates' = addPlateResult(plates, nextId, w, h)
    /\ nextId' = IF Len(plates) >= MaxPlates THEN nextId ELSE nextId + 1
    /\ lastOp' = [name |-> "addPlate", a |-> w, b |-> h,
                  changed |-> Len(plates) < MaxPlates]
    /\ UNCHANGED <<motifUrl, unit, mirrorEnabled>>

StoreRemoveById(id) ==
    /\ plates' = removeByIdResult(plates, id)
    /\ lastOp' = [name |-> "removeById", a |-> id, b |-> 0,
                  changed |-> Len(plates) > 1 /\ PlateIds(plates) # {id}]
    /\ UNCHANGED <<motifUrl, unit, mirrorEnabled, nextId>>

StoreUpdatePlate(id, i) ==
    /\ plates' = updatePlateResult(plates, id, PatchList[i])
    /\ lastOp' = [name |-> "updatePlate", a |-> id, b |-> i, changed |-> TRUE]
    /\ UNCHANGED <<motifUrl, unit, mirrorEnabled, nextId>>

StoreMovePlate(from, to) ==
    /\ plates' = movePlateResult(plates, from, to)
    /\ lastOp' = [name |-> "movePlate", a |-> from, b |-> to,
                  changed |-> ~MoveOutOfRange(from, to, Len(plates))]
    /\ UNCHANGED <<motifUrl, unit, mirrorEnabled, nextId>>

(* reset: () => ({ plates: defaultPlates }) returns an object and never
   calls set *)
StoreReset ==
    /\ lastOp' = [name |-> "reset", a |-> 0, b |-> 0, changed |-> FALSE]
    /\ UNCHANGED <<plates, motifUrl, unit, mirrorEnabled, nextId>>

(* setMotifUrl(url): set({ motifUrl: url || get().motifUrl }) *)
StoreSetMotifUrl(url) ==
    /\ motifUrl' = IF url = "" THEN motifUrl ELSE url
    /\ lastOp' = [name |-> "setMotifUrl", a |-> 0, b |-> 0, changed |-> TRUE]
    /\ UNCHANGED <<plates, unit, mirrorEnabled, nextId>>

(* setUnit(u): set({ unit: u === 'in' ? 'in' : 'cm' }) *)
StoreSetUnit(u) ==
    /\ unit' = IF u = "in" THEN "in" ELSE "cm"
    /\ lastOp' = [name |-> "setUnit", a |-> 0, b |-> 0, changed |-> TRUE]
    /\ UNCHANGED <<plates, motifUrl, mirrorEnabled, nextId>>

(* setMirrorEnabled(v): set({ mirrorEnabled: !!v }) *)
StoreSetMirrorEnabled(v) ==
    /\ mirrorEnabled' = v
    /\ lastOp' = [name |-> "setMirrorEnabled", a |-> 0, b |-> 0, changed |-> TRUE]
    /\ UNCHANGED <<plates, motifUrl, unit, nextId>>

Budgeted == ops < MaxOps /\ ops' = ops + 1

(* the UI's "add" button: addPlate() *)
AddPlateDefault ==
    /\ StoreAddPlate(Undefined, Undefined)
    /\ UNCHANGED <<ops, previewVars, pureVars>>

AddPlate ==
    /\ Budgeted
    /\ \E arg \in AddArgs : StoreAddPlate(arg[1], arg[2])
    /\ UNCHANGED <<previewVars, pureVars>>

RemoveById ==
    /\ Budgeted
    /\ \E id \in IdArgs : StoreRemoveById(id)
    /\ UNCHANGED <<previewVars, pureVars>>

UpdatePlate ==
    /\ Budgeted
    /\ \E id \in IdArgs, i \in 1..Len(PatchList) : StoreUpdatePlate(id, i)
    /\ UNCHANGED <<previewVars, pureVars>>

MovePlate ==
    /\ Budgeted
    /\ \E from, to \in IndexArgs : StoreMovePlate(from, to)
    /\ UNCHANGED <<previewVars, pureVars>>

Reset ==
    /\ Budgeted
    /\ StoreReset
    /\ UNCHANGED <<previewVars, pureVars>>

SetMotifUrl ==
    /\ Budgeted
    /\ \E url \in UrlArgs : StoreSetMotifUrl(url)
    /\ UNCHANGED <<previewVars, pureVars>>

SetUnit ==
    /\ Budgeted
    /\ \E u \in {"cm", "in", "mm"} : StoreSetUnit(u)
    /\ UNCHANGED <<previewVars, pureVars>>

SetMirrorEnabled ==
    /\ Budgeted
    /\ \E v \in BOOLEAN : StoreSetMirrorEnabled(v)
    /\ UNCHANGED <<previewVars, pureVars>>

Next ==
    \/ AddPlateDefault
    \/ AddPlate
    \/ RemoveById
    \/ UpdatePlate
    \/ MovePlate
    \/ Reset
    \/ SetMotifUrl
    \/ SetUnit
    \/ SetMirrorEnabled

Spec == Init /\ [][Next]_vars

----------------------------------------------------------------------------
(* NumberInput.jsx: the width and height inputs of a plate row.  A typed
   value is a number of hundredths of the active unit, or NaN for a text
   parseFloat cannot read. *)

CmPerIn100 == 254       \* CM_PER_IN = 2.54, in hundredths

(* faulty variant: the draft is compared with the bounds in centimetres
   whatever the unit *)
InputInvalidCmBounds(v, u, lo, hi) ==
    v = NaN \/ v < lo * 10 \/ v > hi * 10
(* invalid = !(Number.isFinite(v) && v >= minU && v <= maxU), where minU
   and maxU are cmToUnit(minCm) and cmToUnit(maxCm); v in hundredths of
   the unit u, lo and hi in tenths of a centimetre *)
InputInvalid(v, u, lo, hi) ==
    \/ v = NaN
    \/ IF u = "in"
       THEN v * CmPerIn100 < lo * 1000 \/ v * CmPerIn100 > hi * 1000
       ELSE v < lo * 10 \/ v > hi * 10

(* Math.round(unitToCm(Math.round(v * 10) / 10) * 10), in tenths of cm *)
InputToTenthsOfCm(v, u) ==
    LET roundedU == (v + 5) \div 10
    IN IF u = "in" THEN (roundedU * CmPerIn100 + 50) \div 100 ELSE roundedU

(* faulty variant: commit without validation and without clamping *)
CommitValueUnchecked(v, u, lo, hi) ==
    IF v = NaN THEN << >> ELSE << InputToTenthsOfCm(v, u) >>
(* commit: << >> when the draft is invalid (the draft is reverted and
   nothing is committed), otherwise << clampedCm >> *)
CommitValue(v, u, lo, hi) ==
    IF InputInvalid(v, u, lo, hi) THEN << >>
    ELSE << Min(hi, Max(lo, InputToTenthsOfCm(v, u))) >>

(* drafts, in hundredths of the active unit *)
TypedValues == { NaN, 787, 2995, 11811, 30004 }

(* the two inputs of PlateRow with their minCm and maxCm *)
InputFields ==
    { [key |-> "widthCm", lo |-> MinWidth, hi |-> MaxWidth],
      [key |-> "heightCm", lo |-> MinHeight, hi |-> MaxHeight] }

(* onBlur of one input of the row of plate id: commit(), which calls
   updatePlate(plate.id, { widthCm: cm }) or { heightCm: cm } unless the
   draft is invalid *)
StoreCommitInput(id, f, v) ==
    LET c == CommitValue(v, unit, f.lo, f.hi)
    IN /\ plates' = IF c = << >> THEN plates
                    ELSE updatePlateResult(plates, id,
                             IF f.key = "widthCm" THEN [widthCm |-> c[1]]
                             ELSE [heightCm |-> c[1]])
       /\ lastOp' = [name |-> "commit", a |-> id, b |-> v, changed |-> c # << >>]
       /\ UNCHANGED <<motifUrl, unit, mirrorEnabled, nextId>>

CommitInput ==
    /\ Budgeted
    /\ \E id \in { plates[Len(plates)].id },
          f \in InputFields, v \in TypedValues : StoreCommitInput(id, f, v)
    /\ UNCHANGED <<previewVars, pureVars>>

(* the store driven through the UI's inputs: plates are edited by commits
   only *)
NextInputs ==
    \/ AddPlateDefault
    \/ AddPlate
    \/ RemoveById
    \/ MovePlate
    \/ SetUnit
    \/ CommitInput

SpecInputs == Init /\ [][NextInputs]_vars

----------------------------------------------------------------------------
(* NumberInput.jsx step by step: the draft of one input between focus and
   blur.  A draft is the number parse() reads from the text, in hundredths
   of the active unit, or NaN.  The input record holds the plate id and
   field it edits, local (the draft), prevValid (prevValid.current),
   whether it has the focus, and the number of onChangeCm calls it has
   made since it got the focus. *)

(* Math.round(cmToUnit(valueCm) * 10), the displayed value in tenths of
   the unit u, for a value of t tenths of a centimetre *)
DisplayValue(t, u) ==
    IF u = "in" THEN (200 * t + CmPerIn100) \div (2 * CmPerIn100) ELSE t

(* parse(String(Math.round(u * 10) / 10)): the draft that shows a value *)
DraftOf(t, u) == 10 * DisplayValue(t, u)

FieldOf(key) == CHOOSE f \in InputFields : f.key = key

(* the position of the plate with the given id *)
IndexOfId(ps, id) == CHOOSE k \in 1..Len(ps) : ps[k].id = id

MaxEdits == 1           \* drafts typed

(* single plates the store may start with, restored by the persist
   middleware, which also restores the unit *)
DraftPlates ==
    { << [id |-> 0, widthCm |-> w, heightCm |-> h] >> :
        w \in { MinWidth, 201, 1200, 1270, MaxWidth },
        h \in { MinHeight, 600, MaxHeight } }

InitDraft ==
    /\ plates \in DraftPlates
    /\ motifUrl = DefaultUrl
    /\ unit \in { "cm", "in" }
    /\ mirrorEnabled = FALSE
    /\ nextId = 1
    /\ ops = 0
    /\ lastOp = NoOp
    /\ InitIdlePreview
    /\ InitIdleCover
    /\ InitIdleMirror
    /\ InitIdleScale
    /\ InitIdleStrip
    /\ InitIdlePlaced
    /\ input = << >>

Focused == input # << >> /\ input[1].focused

DraftStep == UNCHANGED <<motifUrl, mirrorEnabled, nextId, previewVars, coverVars,
                         mirrorVars, scaleVars, strip, placed>>

(* an input of the row gets the focus; its draft shows the stored value
   (useState(displayValue) and the effect on displayValue) *)
FocusInput ==
    /\ ~Focused
    /\ \E f \in InputFields :
          LET d == DraftOf(plates[1][f.key], unit)
          IN input' = << [id |-> plates[1].id, key |-> f.key, local |-> d,
                          prevValid |-> d, focused |-> TRUE, calls |-> 0] >>
    /\ lastOp' = [name |-> "focus", a |-> plates[1].id, b |-> 0, changed |-> FALSE]
    /\ UNCHANGED <<plates, unit, ops>>
    /\ DraftStep

(* onChange: setLocal(e.target.value) *)
TypeDraft ==
    /\ Focused
    /\ ops < MaxEdits
    /\ ops' = ops + 1
    /\ \E v \in TypedValues :
          /\ input' = << [input[1] EXCEPT !.local = v] >>
          /\ lastOp' = [name |-> "type", a |-> input[1].id, b |-> v,
                        changed |-> FALSE]
    /\ UNCHANGED <<plates, unit>>
    /\ DraftStep

(* onBlur: commit() *)
BlurInput ==
    /\ Focused
    /\ LET d == input[1]
           f == FieldOf(d.key)
           c == CommitValue(d.local, unit, f.lo, f.hi)
       IN /\ IF c = << >>
             THEN /\ input' = << [d EXCEPT !.local = d.prevValid,
                                           !.focused = FALSE] >>
                  /\ UNCHANGED plates
             ELSE /\ plates' = updatePlateResult(plates, d.id,
                                  IF d.key = "widthCm" THEN [widthCm |-> c[1]]
                                  ELSE [heightCm |-> c[1]])
                  /\ input' = << [d EXCEPT !.local = DraftOf(c[1], unit),
                                           !.prevValid = DraftOf(c[1], unit),
                                           !.focused = FALSE,
                                           !.calls = @ + 1] >>
          /\ lastOp' = [name |-> "blur", a |-> d.id, b |-> d.local,
                        changed |-> c # << >>]
    /\ UNCHANGED <<unit, ops>>
    /\ DraftStep

(* the unit toggle, and the effect that resets the draft of an input when
   its displayValue changes *)
ToggleUnit ==
    /\ ~Focused
    /\ \E u \in { "cm", "in" } :
          /\ StoreSetUnit(u)
          /\ input' = IF input = << >> THEN input
                      ELSE LET d == DraftOf(plates[1][input[1].key], u)
                           IN << [input[1] EXCEPT !.local = d, !.prevValid = d] >>
    /\ UNCHANGED <<ops, previewVars, coverVars, mirrorVars, scaleVars, strip, placed>>

NextDraft == FocusInput \/ TypeDraft \/ BlurInput \/ ToggleUnit

SpecDraft == InitDraft /\ [][NextDraft]_vars

----------------------------------------------------------------------------
(* imageUtils.js *)

MaxCanvasWidth == 8192      \* default maxWidth of mirrorExtendHorizontal
NeededWidthCap == 8192      \* the cap CanvasPreview puts on neededWidth
MirrorThreshold == 3000     \* 300 cm

CeilDiv(a, b) == -((-a) \div b)

(* faulty variant: the tile count without the maxWidth clamp *)
MirrorLayersUncapped(imgW, targetWidth, maxWidth) ==
    Max(1, CeilDiv(targetWidth, Max(1, imgW)))
(* faulty variant: Math.floor in place of Math.ceil *)
MirrorLayersFloor(imgW, targetWidth, maxWidth) ==
    LET u == Max(1, imgW)
    IN Min(Max(1, targetWidth \div u), Max(1, maxWidth \div u))
(* the tile count of mirrorExtendHorizontal(img, targetWidth, maxWidth) *)
MirrorLayers(imgW, targetWidth, maxWidth) ==
    LET u == Max(1, imgW)
    IN Min(Max(1, CeilDiv(targetWidth, u)), Max(1, maxWidth \div u))

(* the width of the canvas mirrorExtendHorizontal draws and encodes *)
MirrorWidth(imgW, targetWidth, maxWidth) ==
    LET u == Max(1, imgW)
    IN Max(u, MirrorLayers(imgW, targetWidth, maxWidth) * u)

(* mirrorExtendHorizontal called on its own *)

MaxMirrorGrid == 6      \* small widths are taken from 1 .. MaxMirrorGrid

MirrorUnits == (1..MaxMirrorGrid) \cup { 1200, 4000, 9000 }
MirrorTargets == (0..(MaxMirrorGrid + 1)) \cup { 3500, 8192, 20000 }
MirrorMaxWidths == (1..MaxMirrorGrid) \cup { MaxCanvasWidth }

InitMirror ==
    /\ InitStore
    /\ InitIdlePreview
    /\ InitIdleCover
    /\ InitIdleScale
    /\ InitIdleStrip
    /\ InitIdleInput
    /\ InitIdlePlaced
    /\ mirrorArgs \in [unit : MirrorUnits, targetWidth : MirrorTargets,
                        maxWidth : MirrorMaxWidths]
    /\ mirrorOut = << >>

(* one call: the canvas is sized, then the call returns the data URL or
   throws because there is no 2D context or because toDataURL refuses *)
MirrorExtend ==
    /\ mirrorOut = << >>
    /\ \E outcome \in { "dataUrl", "noContext", "securityError" } :
          mirrorOut' =
            << [outcome |-> outcome,
                layers |-> MirrorLayers(mirrorArgs.unit, mirrorArgs.targetWidth,
                                        mirrorArgs.maxWidth),
                width |-> MirrorWidth(mirrorArgs.unit, mirrorArgs.targetWidth,
                                      mirrorArgs.maxWidth)] >>
    /\ UNCHANGED <<storeVars, nextId, ops, lastOp, previewVars, coverVars,
                   mirrorArgs, scaleVars, strip, input, placed>>

NextMirror == MirrorExtend

SpecMirror == InitMirror /\ [][NextMirror]_vars

----------------------------------------------------------------------------
(* mirrorExtendHorizontal step by step: the scratch canvas and the tile
   loop.  A canvas is a sequence of pixel columns, column x at position
   x + 1; a column holds the index of the source column it shows, or Blank
   while nothing has been drawn on it.  The context's transform maps a
   user-space abscissa u to a * u + e with a in {1, -1}. *)

Blank == -1

IdentityTransform == [a |-> 1, e |-> 0]

(* ctx.translate(tx, 0) *)
Translate(t, tx) == [a |-> t.a, e |-> t.e + t.a * tx]

(* faulty variant: the flip is left out *)
ScaleXIgnored(t, sx) == t
(* ctx.scale(sx, 1) for sx in {1, -1} *)
ScaleX(t, sx) == [a |-> t.a * sx, e |-> t.e]

(* the pixel column that the user-space interval [u, u + 1] covers *)
DevicePixel(t, u) == IF t.a = 1 THEN t.e + u ELSE t.e - u - 1

(* ctx.drawImage(img, dx, 0, unit, height) under transform t: source
   column j goes to the pixel column of [dx + j, dx + j + 1]; what falls
   outside the canvas is clipped *)
DrawImage(cols, t, dx, u) ==
    [k \in 1..Len(cols) |->
        IF \E j \in 0..(u - 1) : DevicePixel(t, dx + j) = k - 1
        THEN CHOOSE j \in 0..(u - 1) : DevicePixel(t, dx + j) = k - 1
        ELSE cols[k]]

(* one pass of the loop body for tile i *)
DrawTileOn(cols, i, u) ==
    LET x == i * u
    IN IF i % 2 = 0
       THEN DrawImage(cols, IdentityTransform, x, u)
       ELSE DrawImage(cols, ScaleX(Translate(IdentityTransform, x + u), -1), 0, u)

MaxTileUnit == 3        \* source widths are taken from 1 .. MaxTileUnit

TileUnits == 1..MaxTileUnit
TileTargets == 0..(3 * MaxTileUnit + 1)
TileMaxWidths == { 2, 2 * MaxTileUnit + 1, MaxCanvasWidth }

InitTiles ==
    /\ InitStore
    /\ InitIdlePreview
    /\ InitIdleCover
    /\ InitIdleScale
    /\ InitIdleInput
    /\ InitIdlePlaced
    /\ mirrorArgs \in [unit : TileUnits, targetWidth : TileTargets,
                        maxWidth : TileMaxWidths]
    /\ mirrorOut = << >>
    /\ strip = << >>

TileStep == UNCHANGED <<storeVars, nextId, ops, lastOp, previewVars, coverVars,
                        mirrorArgs, scaleVars, input, placed>>

(* the canvas is created and sized; without a 2D context the call throws *)
CreateCanvas ==
    /\ strip = << >>
    /\ mirrorOut = << >>
    /\ LET layers == MirrorLayers(mirrorArgs.unit, mirrorArgs.targetWidth,
                                  mirrorArgs.maxWidth)
           width == MirrorWidth(mirrorArgs.unit, mirrorArgs.targetWidth,
                                mirrorArgs.maxWidth)
       IN /\ strip' = << [width |-> width, layers |-> layers, i |-> 0,
                          columns |-> [k \in 1..width |-> Blank]] >>
          /\ \/ UNCHANGED mirrorOut
             \/ mirrorOut' = << [outcome |-> "noContext", layers |-> layers,
                                 width |-> width] >>
    /\ TileStep

(* one iteration of for (let i = 0; i < layers; i++) *)
DrawTile ==
    /\ strip # << >>
    /\ mirrorOut = << >>
    /\ strip[1].i < strip[1].layers
    /\ strip' = << [strip[1] EXCEPT
                      !.columns = DrawTileOn(@, strip[1].i, mirrorArgs.unit),
                      !.i = @ + 1] >>
    /\ UNCHANGED mirrorOut
    /\ TileStep

(* canvas.toDataURL('image/jpeg', 0.92) returns or throws *)
EncodeStrip ==
    /\ strip # << >>
    /\ mirrorOut = << >>
    /\ strip[1].i = strip[1].layers
    /\ \E outcome \in { "dataUrl", "securityError" } :
          mirrorOut' = << [outcome |-> outcome, layers |-> strip[1].layers,
                           width |-> strip[1].width] >>
    /\ UNCHANGED strip
    /\ TileStep

NextTiles == CreateCanvas \/ DrawTile \/ EncodeStrip

SpecTiles == InitTiles /\ [][NextTiles]_vars

----------------------------------------------------------------------------
(* Exact fractions <<n, d>> with d > 0, in lowest terms *)

RECURSIVE GCD(_, _)
GCD(a, b) == IF b = 0 THEN a ELSE GCD(b, a % b)

Abs(x) == IF x < 0 THEN -x ELSE x

Rat(n, d) ==
    LET g == GCD(Abs(n), Abs(d))
        sgn == IF d < 0 THEN -1 ELSE 1
    IN << (sgn * n) \div g, (sgn * d) \div g >>

RatOfInt(n) == << n, 1 >>
RatLe(x, y) == x[1] * y[2] <= y[1] * x[2]
RatLt(x, y) == x[1] * y[2] < y[1] * x[2]
RatMax(x, y) == IF RatLe(y, x) THEN x ELSE y
RatMin(x, y) == IF RatLe(x, y) THEN x ELSE y
RatMul(x, y) == Rat(x[1] * y[1], x[2] * y[2])
RatDiv(x, y) == Rat(x[1] * y[2], x[2] * y[1])
RatSub(x, y) == Rat(x[1] * y[2] - y[1] * x[2], x[2] * y[2])
RatAdd(x, y) == Rat(x[1] * y[2] + y[1] * x[2], x[2] * y[2])
RatNeg(x) == << -x[1], x[2] >>

(* x | 0 for |x| < 2^31: the fraction is cut off toward zero *)
ToInt32(x) ==
    IF x[1] >= 0 THEN x[1] \div x[2] ELSE -((-x[1]) \div x[2])

(* +x || 0 for a finite number x: the number itself (0 stays 0) *)
ToNumberOrZero(x) == IF x[1] = 0 THEN RatOfInt(0) ELSE x

(* faulty variant: the image guard without | 0 *)
ImageGuardNoTruncation(x) == RatMax(RatOfInt(1), x)
(* the two guards of computeCover *)
ImageGuard(x) == RatOfInt(Max(1, ToInt32(x)))
CanvasGuard(x) == RatMax(RatOfInt(1), ToNumberOrZero(x))

(* faulty variant: the smaller ratio ("contain") *)
CoverScaleContain(iw, ih, cw, ch) == RatMin(RatDiv(cw, iw), RatDiv(ch, ih))
(* the scale of computeCover *)
CoverScale(iw, ih, cw, ch) == RatMax(RatDiv(cw, iw), RatDiv(ch, ih))

computeCover(imgW, imgH, canvasW, canvasH) ==
    LET iw == ImageGuard(imgW)
        ih == ImageGuard(imgH)
        cw == CanvasGuard(canvasW)
        ch == CanvasGuard(canvasH)
        scale == CoverScale(iw, ih, cw, ch)
        scaledW == RatMul(iw, scale)
        scaledH == RatMul(ih, scale)
    IN [scaledW |-> scaledW,
        scaledH |-> scaledH,
        offsetX |-> RatMul(RatSub(scaledW, cw), Rat(1, 2)),
        offsetY |-> RatMul(RatSub(scaledH, ch), Rat(1, 2)),
        scale |-> scale]

(* computeCover called on its own *)

MaxCoverGrid == 4       \* arguments are taken from the halves -1/2 .. MaxCoverGrid/2

CoverGrid == { Rat(k, 2) : k \in -1..MaxCoverGrid }
ImageDims == CoverGrid \cup { RatOfInt(7), RatOfInt(300), RatOfInt(400) }
CanvasDims == CoverGrid \cup { RatOfInt(60), RatOfInt(61), RatOfInt(220) }

InitCover ==
    /\ InitStore
    /\ InitIdlePreview
    /\ InitIdleMirror
    /\ InitIdleScale
    /\ InitIdleStrip
    /\ InitIdleInput
    /\ InitIdlePlaced
    /\ coverArgs \in ImageDims \X ImageDims \X CanvasDims \X CanvasDims
    /\ cover = << >>

ComputeCover ==
    /\ cover = << >>
    /\ cover' = << computeCover(coverArgs[1], coverArgs[2],
                                coverArgs[3], coverArgs[4]) >>
    /\ UNCHANGED <<storeVars, nextId, ops, lastOp, previewVars, coverArgs,
                   mirrorVars, scaleVars, strip, input, placed>>

NextCover == ComputeCover

SpecCover == InitCover /\ [][NextCover]_vars

----------------------------------------------------------------------------
(* CanvasPreview.jsx: the virtual canvas and the motif-resolution effect *)

MaxPreviewOps == 1      \* store operations and exports while the preview is observed

(* a URL is [src, layers]: layers = 0 is the reference itself, layers > 0
   the data URL of a mirror-extended strip of that many tiles *)
PlainUrl(u) == [src |-> u, layers |-> 0]
DataUrl(u, n) == [src |-> u, layers |-> n]

(* the intrinsic pixel size of the image behind each motif reference *)
ImageSize(u) ==
    CASE u = "wide.jpg" -> [w |-> 4000, h |-> 500]
      [] u = "tall.jpg" -> [w |-> 300, h |-> 900]
      [] OTHER -> [w |-> 1200, h |-> 800]

(* plates.reduce((acc, p) => acc + p.widthCm, 0) *)
RECURSIVE ReduceSum(_, _)
ReduceSum(ps, acc) ==
    IF ps = << >> THEN acc ELSE ReduceSum(Tail(ps), acc + Head(ps).widthCm)

(* plates.reduce((m, p) => Math.max(m, p.heightCm), 0) *)
RECURSIVE ReduceMax(_, _)
ReduceMax(ps, m) ==
    IF ps = << >> THEN m ELSE ReduceMax(Tail(ps), Max(m, Head(ps).heightCm))

(* faulty variant of the memo: Math.min in place of Math.max *)
RECURSIVE ReduceMin(_, _)
ReduceMin(ps, m) ==
    IF ps = << >> THEN m ELSE ReduceMin(Tail(ps), Min(m, Head(ps).heightCm))

VirtualMinHeight(ps) ==
    [totalW |-> ReduceSum(ps, 0), maxH |-> ReduceMin(ps, MaxHeight)]
(* the virtual memo *)
VirtualOf(ps) ==
    [totalW |-> ReduceSum(ps, 0), maxH |-> ReduceMax(ps, 0)]

(* faulty variant of the offsets: every plate hangs from the top edge *)
OffsetsTopAligned(ps, maxH) ==
    [k \in 1..Len(ps) |-> [x0 |-> ReduceSum(SubSeq(ps, 1, k - 1), 0), y0 |-> 0]]
(* the offsets memo: x accumulates the widths of the plates already
   mapped, y0 is virtual.maxH - p.heightCm *)
OffsetsOf(ps, maxH) ==
    [k \in 1..Len(ps) |->
        [x0 |-> ReduceSum(SubSeq(ps, 1, k - 1), 0),
         y0 |-> maxH - ps[k].heightCm]]

(* faulty variant: mirrors at exactly 300 cm too *)
ShouldMirrorAtThreshold(totalW) == totalW >= MirrorThreshold
(* const shouldMirror = virtual.totalW > 300 *)
ShouldMirror(totalW) == totalW > MirrorThreshold

(* faulty variant: neededWidth without the 8192 cap *)
NeededWidthUncapped(imgH, totalW, maxH) ==
    CeilDiv(imgH * totalW, Max(10, maxH))
(* Math.min(Math.ceil(img.height * (totalW / Math.max(1, maxH))), 8192),
   with totalW and maxH in tenths *)
NeededWidth(imgH, totalW, maxH) ==
    Min(CeilDiv(imgH * totalW, Max(10, maxH)), NeededWidthCap)

(* what run() hands to setImgInfo for the plain motif *)
PlainInfo(u) ==
    [url |-> PlainUrl(u), w |-> ImageSize(u).w, h |-> ImageSize(u).h]

(* what run() hands to setImgInfo for the mirror-extended motif: the data
   URL and the size of the image decoded from it *)
ExtendedInfo(u, totalW, maxH) ==
    LET img == ImageSize(u)
        needed == NeededWidth(img.h, totalW, maxH)
    IN [url |-> DataUrl(u, MirrorLayers(img.w, needed, MaxCanvasWidth)),
        w |-> MirrorWidth(img.w, needed, MaxCanvasWidth),
        h |-> Max(1, img.h)]

(* computeCover(imgInfo.w, imgInfo.h, virtual.totalW, virtual.maxH), as
   the bg memo and handleExport call it: the canvas is in centimetres *)
CoverOfRender(info, v) ==
    computeCover(RatOfInt(info.w), RatOfInt(info.h),
                 Rat(v.totalW, 10), Rat(v.maxH, 10))

(* a cycle: one run of the effect, with the values its closure captured *)
NewCycle(u, v) ==
    [motifUrl |-> u, totalW |-> v.totalW, maxH |-> v.maxH,
     isMounted |-> TRUE, pc |-> "loadMotif", setCalls |-> 0, logged |-> FALSE,
     target |-> 0, steps |-> << "loadMotif" >>]

(* the cycles after cycle c has called mirrorExtendHorizontal(img,
   neededWidth): the target width it passed is recorded *)
CalledMirror(cs, c) ==
    [cs EXCEPT ![c].target =
                   NeededWidth(ImageSize(cs[c].motifUrl).h, cs[c].totalW, cs[c].maxH),
               ![c].steps = Append(@, "mirrorExtend")]

(* the cycles after cycle c has called loadImage(dataUrl) and waits *)
CalledLoadExtended(cs, c) ==
    [cs EXCEPT ![c].pc = "loadExtended", ![c].steps = Append(@, "loadExtended")]

(* faulty variant: run() goes on after its call of setImgInfo *)
WroteAndWentOn(cs, c) ==
    [cs EXCEPT ![c].setCalls = @ + 1, ![c].steps = Append(@, "setImgInfo")]
(* the cycles after cycle c has called setImgInfo, the last statement of
   each of its paths *)
Wrote(cs, c) ==
    [cs EXCEPT ![c].pc = "done", ![c].setCalls = @ + 1,
               ![c].steps = Append(@, "setImgInfo")]

(* the exceptions the catch blocks can receive: loadImage's rejection,
   mirrorExtendHorizontal's "2D canvas context not available" (a TypeError
   on the null context in handleExport), and the SecurityError of
   toDataURL on a canvas tainted by a cross-origin image *)
Errors == { "loadError", "noContext", "securityError" }

(* one run of a catch block: where it ran, the exception it received,
   imgInfo before and after, and the calls it made to tell anyone *)
Report(site, e, before, after, said) ==
    [site |-> site, error |-> e, before |-> before, after |-> after,
     said |-> said]

(* console.error("Failed to load motif", e) *)
EffectSaid(e) ==
    << [channel |-> "console.error", text |-> "Failed to load motif",
        error |-> e] >>

(* alert("Export failed. ..."); console.error(err) *)
ExportSaid(e) ==
    << [channel |-> "alert",
        text |-> "Export failed. If you used a remote image without CORS, upload the image instead.",
        error |-> ""],
       [channel |-> "console.error", text |-> "", error |-> e] >>

(* the effect's cleanup: () => { isMounted = false } of the latest cycle *)
Cleanup(cs) ==
    [k \in 1..Len(cs) |->
        IF k = Len(cs) THEN [cs[k] EXCEPT !.isMounted = FALSE] ELSE cs[k]]

(* setImgInfo(x): a state update of an unmounted component is dropped *)
SetImgInfo(x) == imgInfo' = IF mounted THEN x ELSE imgInfo

(* the catch block of cycle c of cs, with exception e:
   console.error(...); setImgInfo(null) *)
Catch(c, e, cs) ==
    /\ SetImgInfo(<< >>)
    /\ cycles' = [Wrote(cs, c) EXCEPT ![c].logged = TRUE]
    /\ reports' = reports \cup
                    { Report("effect", e, imgInfo, imgInfo', EffectSaid(e)) }

PreviewStep(name, c) ==
    /\ lastOp' = [name |-> name, a |-> c, b |-> 0, changed |-> imgInfo' # imgInfo]
    /\ UNCHANGED <<storeVars, nextId, ops, mounted, virtual, exports, pureVars>>

(* loadImage(motifUrl) resolved: run() continues to its next await or to
   its end *)
LoadMotifResolved ==
    \E c \in DOMAIN cycles :
        /\ cycles[c].pc = "loadMotif"
        /\ IF ShouldMirror(cycles[c].totalW)
           THEN /\ cycles' =
                     IF cycles[c].isMounted
                     THEN CalledLoadExtended(CalledMirror(cycles, c), c)
                     ELSE [CalledMirror(cycles, c) EXCEPT ![c].pc = "done"]
                /\ UNCHANGED imgInfo
           ELSE IF ~cycles[c].isMounted
           THEN /\ cycles' = [cycles EXCEPT ![c].pc = "done"]
                /\ UNCHANGED imgInfo
           ELSE /\ SetImgInfo(<< PlainInfo(cycles[c].motifUrl) >>)
                /\ cycles' = Wrote(cycles, c)
        /\ UNCHANGED reports
        /\ PreviewStep("loadMotifResolved", c)

(* loadImage(motifUrl) resolved and mirrorExtendHorizontal threw (no 2D
   context, or toDataURL refused) *)
MirrorExtendThrew ==
    \E c \in DOMAIN cycles :
        /\ cycles[c].pc = "loadMotif"
        /\ ShouldMirror(cycles[c].totalW)
        /\ \E e \in { "noContext", "securityError" } :
              Catch(c, e, CalledMirror(cycles, c))
        /\ PreviewStep("mirrorExtendThrew", c)

(* loadImage(motifUrl) rejected *)
LoadMotifRejected ==
    \E c \in DOMAIN cycles :
        /\ cycles[c].pc = "loadMotif"
        /\ Catch(c, "loadError", cycles)
        /\ PreviewStep("loadMotifRejected", c)

(* loadImage(dataUrl) resolved *)
LoadExtendedResolved ==
    \E c \in DOMAIN cycles :
        /\ cycles[c].pc = "loadExtended"
        /\ IF ~cycles[c].isMounted
           THEN /\ cycles' = [cycles EXCEPT ![c].pc = "done"]
                /\ UNCHANGED imgInfo
           ELSE /\ SetImgInfo(<< ExtendedInfo(cycles[c].motifUrl,
                                   cycles[c].totalW, cycles[c].maxH) >>)
                /\ cycles' = Wrote(cycles, c)
        /\ UNCHANGED reports
        /\ PreviewStep("loadExtendedResolved", c)

(* loadImage(dataUrl) rejected *)
LoadExtendedRejected ==
    \E c \in DOMAIN cycles :
        /\ cycles[c].pc = "loadExtended"
        /\ Catch(c, "loadError", cycles)
        /\ PreviewStep("loadExtendedRejected", c)

(* the component is removed: the effect's cleanup runs, its state is gone *)
Unmount ==
    /\ mounted
    /\ mounted' = FALSE
    /\ imgInfo' = << >>
    /\ cycles' = Cleanup(cycles)
    /\ lastOp' = [name |-> "unmount", a |-> 0, b |-> 0, changed |-> imgInfo # << >>]
    /\ UNCHANGED <<storeVars, nextId, ops, virtual, exports, reports, pureVars>>

(* the render that follows a store change: the memo is recomputed, and
   when motifUrl, totalW or maxH differ from the last render's the effect
   is cleaned up and run again *)
Render ==
    /\ IF mounted
       THEN /\ virtual' = VirtualOf(plates')
            /\ cycles' =
                 IF <<motifUrl', VirtualOf(plates').totalW, VirtualOf(plates').maxH>>
                      # <<motifUrl, virtual.totalW, virtual.maxH>>
                 THEN Append(Cleanup(cycles), NewCycle(motifUrl', VirtualOf(plates')))
                 ELSE cycles
       ELSE UNCHANGED <<virtual, cycles>>
    /\ UNCHANGED <<mounted, imgInfo, exports, reports, pureVars>>

PreviewBudgeted == ops < MaxPreviewOps /\ ops' = ops + 1

(* handleExport *)

PxPerCm == 8
MaxRaster == 8000

(* Math.round(cm * pxPerCm) for a length of t tenths of a centimetre:
   floor(t * 8 / 10 + 1/2) *)
RoundPx(t) == (t * PxPerCm + 5) \div 10

(* faulty variant: the canvas without the 8000 px limit *)
ExportSizeUncapped(v) ==
    [W |-> Max(1, RoundPx(v.totalW)), H |-> Max(1, RoundPx(v.maxH))]
(* canvas.width and canvas.height of the export *)
ExportSize(v) ==
    [W |-> Min(Max(1, RoundPx(v.totalW)), MaxRaster),
     H |-> Min(Max(1, RoundPx(v.maxH)), MaxRaster)]

(* the rectangles of the plate loop, in tenths of a pixel: x = xAcc * s,
   y = (virtual.maxH - p.heightCm) * s, w = p.widthCm * s,
   h = p.heightCm * s, with xAcc the widths added up so far *)
PlateRects(ps, maxH) ==
    [k \in 1..Len(ps) |->
        [x |-> ReduceSum(SubSeq(ps, 1, k - 1), 0) * PxPerCm,
         y |-> (maxH - ps[k].heightCm) * PxPerCm,
         w |-> ps[k].widthCm * PxPerCm,
         h |-> ps[k].heightCm * PxPerCm]]

(* one run of handleExport past its early return, with the values of the
   render it was created in; rects are the rectangles its plate loop
   clips to once the image is loaded *)
NewExport(info, v, ps) ==
    [url |-> info.url, totalW |-> v.totalW, maxH |-> v.maxH,
     W |-> ExportSize(v).W, H |-> ExportSize(v).H,
     plates |-> ps, rects |-> PlateRects(ps, v.maxH),
     pc |-> "loadImage", outcome |-> ""]

(* faulty variant: the export's catch block clears the motif as the
   effect's catch block does *)
ExportCatchClearsMotif(x, e, es) ==
    /\ exports' = [es EXCEPT ![x].pc = "done", ![x].outcome = e]
    /\ imgInfo' = << >>
    /\ reports' = reports \cup
                    { Report("export", e, imgInfo, << >>, ExportSaid(e)) }
(* the catch block of export x of es, with exception e: alert(...);
   console.error(err) *)
ExportCatch(x, e, es) ==
    /\ exports' = [es EXCEPT ![x].pc = "done", ![x].outcome = e]
    /\ imgInfo' = imgInfo
    /\ reports' = reports \cup
                    { Report("export", e, imgInfo, imgInfo, ExportSaid(e)) }

ExportStep(name, x) ==
    /\ lastOp' = [name |-> name, a |-> x, b |-> 0,
                  changed |-> exports' # exports]
    /\ UNCHANGED <<storeVars, nextId, mounted, virtual, cycles, pureVars>>

(* a click on "Export PNG": nothing without imgInfo; otherwise the canvas
   is created and either getContext gave null, so that ctx.fillStyle
   throws, or the run waits for loadImage(imgInfo.url) *)
HandleExport ==
    /\ mounted
    /\ PreviewBudgeted
    /\ IF imgInfo = << >>
       THEN UNCHANGED <<imgInfo, exports, reports>>
       ELSE LET es == Append(exports, NewExport(imgInfo[1], virtual, plates))
            IN \/ exports' = es /\ UNCHANGED <<imgInfo, reports>>
               \/ ExportCatch(Len(es), "noContext", es)
    /\ ExportStep("handleExport", Len(exports) + 1)

(* loadImage(imgInfo.url) resolved: the plates are drawn, then toDataURL
   returns and the download starts, or it throws on a tainted canvas *)
ExportLoadResolved ==
    \E x \in DOMAIN exports :
        /\ exports[x].pc = "loadImage"
        /\ \/ /\ exports' = [exports EXCEPT ![x].pc = "done",
                                              ![x].outcome = "downloaded"]
              /\ UNCHANGED <<imgInfo, reports>>
           \/ ExportCatch(x, "securityError", exports)
        /\ UNCHANGED ops
        /\ ExportStep("exportLoadResolved", x)

(* loadImage(imgInfo.url) rejected *)
ExportLoadRejected ==
    \E x \in DOMAIN exports :
        /\ exports[x].pc = "loadImage"
        /\ ExportCatch(x, "loadError", exports)
        /\ UNCHANGED ops
        /\ ExportStep("exportLoadRejected", x)

PreviewPatchList == << [widthCm |-> 3000], [widthCm |-> 1800], [heightCm |-> 1280],
                       [heightCm |-> -50], [widthCm |-> 2500] >>

PvAddPlate ==
    /\ PreviewBudgeted
    /\ StoreAddPlate(Undefined, Undefined)
    /\ Render

PvRemoveById ==
    /\ PreviewBudgeted
    /\ \E id \in IdArgs : StoreRemoveById(id)
    /\ Render

PvUpdatePlate ==
    /\ PreviewBudgeted
    /\ \E i \in 1..Len(PreviewPatchList) :
          /\ plates' = updatePlateResult(plates, plates[1].id, PreviewPatchList[i])
          /\ lastOp' = [name |-> "updatePlate", a |-> plates[1].id, b |-> i,
                        changed |-> TRUE]
          /\ UNCHANGED <<motifUrl, unit, mirrorEnabled, nextId>>
    /\ Render

PvMovePlate ==
    /\ PreviewBudgeted
    /\ \E from, to \in {0, Len(plates) - 1} : StoreMovePlate(from, to)
    /\ Render

PvSetMotifUrl ==
    /\ PreviewBudgeted
    /\ \E url \in UrlArgs : StoreSetMotifUrl(url)
    /\ Render

(* plate sequences the persist middleware may restore from localStorage
   when the store is created: nothing stored (the defaults), and a row of
   two, a full row of ten and a row of four of the widest plates saved by
   an earlier session *)
TenPlates ==
    [k \in 1..MaxPlates |->
        [id |-> 100 + k,
         widthCm |-> IF k % 2 = 1 THEN MinWidth ELSE 255 + (10 * k),
         heightCm |-> IF k = 7 THEN MaxHeight ELSE MinHeight + k]]

TwoPlates ==
    << [id |-> 201, widthCm |-> 1200, heightCm |-> 600],
       [id |-> 202, widthCm |-> 1000, heightCm |-> 400] >>

WideRow ==
    [k \in 1..4 |-> [id |-> 300 + k, widthCm |-> MaxWidth, heightCm |-> 1000 + k]]

PersistedPlates == { defaultPlates, TwoPlates, TenPlates, WideRow }

(* the state after the store is created, the first render and the first
   run of the effect *)
InitPreview ==
    /\ plates \in PersistedPlates
    /\ motifUrl = DefaultUrl
    /\ unit = "cm"
    /\ mirrorEnabled = FALSE
    /\ nextId = 1
    /\ ops = 0
    /\ lastOp = NoOp
    /\ InitIdlePure
    /\ mounted = TRUE
    /\ imgInfo = << >>
    /\ virtual = VirtualOf(plates)
    /\ cycles = << NewCycle(motifUrl, VirtualOf(plates)) >>
    /\ exports = << >>
    /\ reports = {}

NextPreview ==
    \/ PvAddPlate
    \/ PvRemoveById
    \/ PvUpdatePlate
    \/ PvMovePlate
    \/ PvSetMotifUrl
    \/ LoadMotifResolved
    \/ MirrorExtendThrew
    \/ LoadMotifRejected
    \/ LoadExtendedResolved
    \/ LoadExtendedRejected
    \/ Unmount
    \/ HandleExport
    \/ ExportLoadResolved
    \/ ExportLoadRejected

SpecPreview == InitPreview /\ [][NextPreview]_vars

----------------------------------------------------------------------------
(* CanvasPreview.jsx: the preview memo (the fit scale), as a function of
   the observed size in CSS pixels and the virtual canvas in tenths of a
   centimetre.  A size of NaN stands for a non-finite measurement. *)

PreviewPad == 12

(* Math.max(0, size.width - pad * 2); with NaN the result is NaN *)
Avail(px) == IF px = NaN THEN NaN ELSE Max(0, px - PreviewPad * 2)

(* faulty variant: the available size without Math.max(0, ...) *)
PreviewScaleUnclamped(width, height, totalW, maxH) ==
    IF width = NaN \/ height = NaN
    THEN [scale |-> RatOfInt(1), fallback |-> TRUE]
    ELSE [scale |-> RatMin(Rat((width - PreviewPad * 2) * 10, Max(10, totalW)),
                           Rat((height - PreviewPad * 2) * 10, Max(10, maxH))),
          fallback |-> FALSE]
(* s = Math.min(availW / Math.max(1, totalW), availH / Math.max(1, maxH));
   { scale: isFinite(s) ? s : 1 } *)
PreviewScale(width, height, totalW, maxH) ==
    IF Avail(width) = NaN \/ Avail(height) = NaN
    THEN [scale |-> RatOfInt(1), fallback |-> TRUE]
    ELSE [scale |-> RatMin(Rat(Avail(width) * 10, Max(10, totalW)),
                           Rat(Avail(height) * 10, Max(10, maxH))),
          fallback |-> FALSE]

MaxViewportGrid == 3    \* viewport sizes go up to 24 + 100 * MaxViewportGrid px

ViewportSizes == { NaN, 0, 12, 24 } \cup { 24 + 100 * k : k \in 1..MaxViewportGrid }

(* virtual canvases: the rows of PersistedPlates, and one of a single
   plate that updatePlate has shrunk to 0.5 cm by 0.5 cm *)
VirtualSizes ==
    { VirtualOf(ps) : ps \in PersistedPlates } \cup { [totalW |-> 5, maxH |-> 5] }

InitScale ==
    /\ InitStore
    /\ InitIdlePreview
    /\ InitIdleCover
    /\ InitIdleMirror
    /\ InitIdleStrip
    /\ InitIdleInput
    /\ InitIdlePlaced
    /\ scaleArgs \in { [width |-> w, height |-> h, totalW |-> v.totalW,
                         maxH |-> v.maxH] :
                           w \in ViewportSizes, h \in ViewportSizes,
                           v \in VirtualSizes }
    /\ scaleOut = << >>

ComputePreviewScale ==
    /\ scaleOut = << >>
    /\ scaleOut' = << PreviewScale(scaleArgs.width, scaleArgs.height,
                                   scaleArgs.totalW, scaleArgs.maxH) >>
    /\ UNCHANGED <<storeVars, nextId, ops, lastOp, previewVars, coverVars,
                   mirrorVars, scaleArgs, strip, input, placed>>

NextScale == ComputePreviewScale

SpecScale == InitScale /\ [][NextScale]_vars

----------------------------------------------------------------------------
(* CanvasPreview.jsx: where the render and the export put the motif.
   Lengths of the virtual canvas are fractions of a centimetre, positions
   on the screen and in the export are fractions of a pixel. *)

Cm(t) == Rat(t, 10)

(* faulty variant: the background starts anew at each plate's left edge *)
BgPosXFromPlateEdge(xCm, cov, sc) == RatMul(RatNeg(cov.offsetX), sc)
(* posX: (xCm) => -(xCm + cover.offsetX) * s *)
BgPosX(xCm, cov, sc) == RatMul(RatNeg(RatAdd(xCm, cov.offsetX)), sc)

(* posY: (yCm) => -(yCm + cover.offsetY) * s *)
BgPosY(yCm, cov, sc) == RatMul(RatNeg(RatAdd(yCm, cov.offsetY)), sc)

(* the style of each plate and of its background layer *)
PlateStyles(ps, v, info, sc) ==
    LET cov == CoverOfRender(info, v)
        offs == OffsetsOf(ps, v.maxH)
    IN [k \in 1..Len(ps) |->
          [left |-> RatMul(Cm(offs[k].x0), sc),
           width |-> RatMul(Cm(ps[k].widthCm), sc),
           height |-> RatMul(Cm(ps[k].heightCm), sc),
           sizeW |-> RatMul(cov.scaledW, sc),
           sizeH |-> RatMul(cov.scaledH, sc),
           posX |-> BgPosX(Cm(offs[k].x0), cov, sc),
           posY |-> BgPosY(Cm(offs[k].y0), cov, sc)]]

(* the rectangle handleExport draws the image into: sx, sy, sw, sh *)
ExportImageRect(info, v) ==
    LET cov == CoverOfRender(info, v)
        sc == RatOfInt(PxPerCm)
    IN [sx |-> RatMul(RatNeg(cov.offsetX), sc),
        sy |-> RatMul(RatNeg(cov.offsetY), sc),
        sw |-> RatMul(cov.scaledW, sc),
        sh |-> RatMul(cov.scaledH, sc)]

(* the one cycle of a preview whose motif has been resolved *)
SettledCycles(u, v) ==
    LET cs == << NewCycle(u, v) >>
    IN IF ShouldMirror(v.totalW)
       THEN Wrote(CalledLoadExtended(CalledMirror(cs, 1), 1), 1)
       ELSE Wrote(cs, 1)

(* a mounted preview with its motif resolved, before the container has
   been measured into the preview memo *)
InitPlacement ==
    /\ plates \in PersistedPlates
    /\ motifUrl \in { DefaultUrl, "wide.jpg", "tall.jpg" }
    /\ unit = "cm"
    /\ mirrorEnabled = FALSE
    /\ nextId = 1
    /\ ops = 0
    /\ lastOp = NoOp
    /\ mounted = TRUE
    /\ virtual = VirtualOf(plates)
    /\ imgInfo = << IF ShouldMirror(VirtualOf(plates).totalW)
                    THEN ExtendedInfo(motifUrl, VirtualOf(plates).totalW,
                                      VirtualOf(plates).maxH)
                    ELSE PlainInfo(motifUrl) >>
    /\ cycles = SettledCycles(motifUrl, VirtualOf(plates))
    /\ exports = << >>
    /\ reports = {}
    /\ InitIdleCover
    /\ InitIdleMirror
    /\ InitIdleStrip
    /\ InitIdleInput
    /\ InitIdlePlaced
    /\ scaleArgs \in { [width |-> w, height |-> h,
                         totalW |-> VirtualOf(plates).totalW,
                         maxH |-> VirtualOf(plates).maxH] :
                           w \in ViewportSizes, h \in ViewportSizes }
    /\ scaleOut = << >>

PlacementStep ==
    UNCHANGED <<storeVars, nextId, ops, lastOp, previewVars, coverVars,
                mirrorVars, scaleVars, strip, input>>

(* the render: bg and the style of every plate *)
RenderPlates ==
    /\ mounted
    /\ imgInfo # << >>
    /\ scaleOut # << >>
    /\ placed.styles = << >>
    /\ placed' = [placed EXCEPT !.styles =
                     PlateStyles(plates, virtual, imgInfo[1], scaleOut[1].scale)]
    /\ PlacementStep

(* handleExport up to its first ctx.drawImage(img, sx, sy, sw, sh) *)
ExportDrawImage ==
    /\ mounted
    /\ imgInfo # << >>
    /\ placed.drawn = << >>
    /\ placed' = [placed EXCEPT !.drawn = << ExportImageRect(imgInfo[1], virtual) >>]
    /\ PlacementStep

NextPlacement == ComputePreviewScale \/ RenderPlates \/ ExportDrawImage

SpecPlacement == InitPlacement /\ [][NextPlacement]_vars

----------------------------------------------------------------------------
(* Claims about the store, checked under Spec *)

(* C3: after any sequence of addPlate, removeById, updatePlate, movePlate
   and reset calls from the default single-plate state, the plate sequence
   holds at least 1 and at most 10 plates. *)
C3_LengthWithinOneAndTen ==
    Len(plates) >= 1 /\ Len(plates) <= 10

(* an addPlate call that met a full sequence of 10 plates *)
C3_Witness ==
    /\ lastOp.name = "addPlate"
    /\ ~lastOp.changed
    /\ Len(plates) = 10
    /\ ops >= 1

(* C4: removeById on a sequence of exactly one plate changes nothing, for
   every id, the id of that plate included. *)
C4_RemoveLastRejected ==
    [][(lastOp'.name = "removeById" /\ Len(plates) = 1)
          => (plates' = plates /\ Len(plates') = 1)]_vars

C4_Witness ==
    /\ lastOp.name = "removeById"
    /\ Len(plates) = 1
    /\ lastOp.a = plates[1].id
    /\ ~lastOp.changed

(* where the plate at 1-based position k goes when the plate at 0-based
   index from is moved to 0-based index to *)
MovedPosition(k, from, to) ==
    IF k = from + 1 THEN to + 1
    ELSE LET r == IF k < from + 1 THEN k ELSE k - 1
         IN IF r < to + 1 THEN r ELSE r + 1

InRange(i, len) == i >= 0 /\ i < len

(* C5: movePlate(from, to) with 0 <= from, to < length gives a permutation
   of the previous sequence: every plate is kept with its id, widthCm and
   heightCm, the moved plate is at index to, and the other plates keep
   their relative order. *)
C5_MoveIsPermutation ==
    [][(/\ lastOp'.name = "movePlate"
        /\ InRange(lastOp'.a, Len(plates))
        /\ InRange(lastOp'.b, Len(plates)))
          => (/\ Len(plates') = Len(plates)
              /\ plates'[lastOp'.b + 1] = plates[lastOp'.a + 1]
              /\ \A k \in 1..Len(plates) :
                    plates'[MovedPosition(k, lastOp'.a, lastOp'.b)] = plates[k]
              /\ \A j, k \in (1..Len(plates)) \ {lastOp'.a + 1} :
                    j < k => MovedPosition(j, lastOp'.a, lastOp'.b)
                               < MovedPosition(k, lastOp'.a, lastOp'.b))]_vars

(* a plate was moved over at least two others *)
C5_Witness ==
    /\ lastOp.name = "movePlate"
    /\ InRange(lastOp.a, Len(plates))
    /\ InRange(lastOp.b, Len(plates))
    /\ lastOp.b - lastOp.a >= 2
    /\ plates[lastOp.b + 1].id = 0
    /\ plates[1].id # 0

(* C6: movePlate(from, to) with from or to negative or >= length changes
   neither the plate sequence nor any other store field. *)
C6_OutOfRangeMoveIsNoOp ==
    [][(/\ lastOp'.name = "movePlate"
        /\ lastOp'.a # NaN
        /\ lastOp'.b # NaN
        /\ (~InRange(lastOp'.a, Len(plates)) \/ ~InRange(lastOp'.b, Len(plates))))
          => UNCHANGED storeVars]_vars

(* a move with a valid source and a target one past the end *)
C6_Witness ==
    /\ lastOp.name = "movePlate"
    /\ InRange(lastOp.a, Len(plates))
    /\ lastOp.b = Len(plates)
    /\ Len(plates) >= 2
    /\ ~lastOp.changed

(* C17: after any sequence of addPlate, removeById, updatePlate,
   movePlate and reset calls, no two plates of the sequence have the same
   id, and a plate keeps the id it was created with for as long as it is
   in the sequence: updatePlate and reset leave the id at every position
   as it was, and no step brings in an id other than a freshly created
   one. *)
C17_IdsUniqueAndStable ==
    /\ [](\A j, k \in 1..Len(plates) : j # k => plates[j].id # plates[k].id)
    /\ [][/\ lastOp'.name \in { "updatePlate", "reset" }
               => /\ Len(plates') = Len(plates)
                  /\ \A k \in 1..Len(plates) : plates'[k].id = plates[k].id
           /\ PlateIds(plates') \subseteq (PlateIds(plates) \cup {nextId})]_vars

(* C24: reset() restores the defaults: right after a call of reset, from
   any reachable store state, the plate sequence is the default set, a
   single plate of 120 cm by 60 cm. *)
C24_ResetRestoresDefaults ==
    lastOp.name = "reset"
        => /\ plates = defaultPlates
           /\ Len(plates) = 1
           /\ plates[1].widthCm = 1200
           /\ plates[1].heightCm = 600

----------------------------------------------------------------------------
(* Claims about the store driven through the inputs, checked under
   SpecInputs *)

(* C16: after any sequence of addPlate (with any requested width and
   height), NumberInput commits, removeById and movePlate, every plate has
   widthCm in [20, 300] and heightCm in [30, 128]. *)
C16_DimensionsInDomain ==
    \A k \in 1..Len(plates) :
        /\ plates[k].widthCm >= 200 /\ plates[k].widthCm <= 3000
        /\ plates[k].heightCm >= 300 /\ plates[k].heightCm <= 1280

(* 118.11 in was committed as a width: 118.1 in, 299.974 cm, 300.0 cm *)
C16_Witness ==
    /\ lastOp.name = "commit"
    /\ lastOp.changed
    /\ lastOp.b = 11811
    /\ unit = "in"
    /\ \E k \in 1..Len(plates) :
          plates[k].id = lastOp.a /\ plates[k].widthCm = 3000

----------------------------------------------------------------------------
(* Claims about one input between focus and blur, checked under SpecDraft *)

(* the draft v, in hundredths of unit u, is a finite number within
   [lo, hi] tenths of a centimetre converted to u (2.54 cm to the inch) *)
DraftWithin(v, u, lo, hi) ==
    /\ v # NaN
    /\ IF u = "in"
       THEN 1000 * lo <= 254 * v /\ 254 * v <= 1000 * hi
       ELSE 10 * lo <= v /\ v <= 10 * hi

(* c tenths of a centimetre is what the draft v stands for: v rounded to
   one decimal of the unit, converted to centimetres, rounded to 0.1 cm,
   and brought into [lo, hi] *)
IsCommittedValue(c, v, u, lo, hi) ==
    \E r \in 0..((v \div 10) + 1) :
        /\ 10 * r <= v + 5 /\ v + 5 < 10 * r + 10
        /\ LET cm1000 == IF u = "in" THEN 254 * r ELSE 100 * r
           IN \E n \in 0..((cm1000 \div 100) + 1) :
                 /\ 100 * n <= cm1000 + 50 /\ cm1000 + 50 < 100 * n + 100
                 /\ c = IF n < lo THEN lo ELSE IF n > hi THEN hi ELSE n

(* C25: commit on blur.  When the draft does not parse to a finite number
   within [min, max] converted to the active unit, the draft reverts to
   the last valid value and updatePlate is not called, so the store is
   unchanged; otherwise updatePlate is called exactly once, on the edited
   field of the edited plate, with a centimetre value rounded to 0.1 that
   lies in [minCm, maxCm]. *)
C25_BlurRevertsOrCommitsOnce ==
    [][lastOp'.name = "blur" =>
          LET d == input[1]
              f == FieldOf(d.key)
              k == IndexOfId(plates, d.id)
          IN IF ~DraftWithin(d.local, unit, f.lo, f.hi)
             THEN /\ input'[1].local = d.prevValid
                  /\ input'[1].calls = d.calls
                  /\ UNCHANGED storeVars
             ELSE /\ input'[1].calls = d.calls + 1
                  /\ plates'[k][d.key] >= f.lo
                  /\ plates'[k][d.key] <= f.hi
                  /\ IsCommittedValue(plates'[k][d.key], d.local, unit, f.lo, f.hi)
                  /\ plates' = [plates EXCEPT ![k][d.key] = plates'[k][d.key]]
                  /\ UNCHANGED <<motifUrl, unit, mirrorEnabled>>]_vars

(* 118.11 in was typed as a width and left: one call, with 300.0 cm *)
C25_Witness ==
    /\ lastOp.name = "blur"
    /\ lastOp.b = 11811
    /\ lastOp.changed
    /\ unit = "in"
    /\ input[1].key = "widthCm"
    /\ input[1].calls = 1
    /\ plates[1].widthCm = 3000

(* C26: blurring an input whose draft equals the displayed value leaves
   the plate's stored value unchanged, in both units, for every stored
   value that is a multiple of 0.1 cm within the input's bounds; and
   switching the unit alone changes no stored plate value. *)
C26_UneditedBlurKeepsValue ==
    [][/\ (/\ lastOp'.name = "blur"
           /\ input[1].local
                 = DraftOf(plates[IndexOfId(plates, input[1].id)][input[1].key],
                           unit))
              => plates' = plates
       /\ lastOp'.name = "setUnit" => plates' = plates]_vars

----------------------------------------------------------------------------
(* Claims about CanvasPreview, checked under SpecPreview *)

(* C1: last-request-wins.  Once a cycle has been superseded (its isMounted
   flag is false), it never calls setImgInfo and never logs an error, on
   any of its paths. *)
C1_SupersededCycleIsSilent ==
    [][\A c \in DOMAIN cycles :
          ~cycles[c].isMounted
              => (/\ cycles'[c].setCalls = cycles[c].setCalls
                  /\ cycles'[c].logged = cycles[c].logged)]_vars

(* cycle c failed in this step *)
Failed(c) == cycles'[c].logged /\ ~cycles[c].logged

(* C2: when a cycle fails (the motif load, the mirror extension or the
   load of the extended image throws) while a previously resolved motif
   exists, imgInfo keeps that value. *)
C2_FailureKeepsPreviousMotif ==
    [][\A c \in DOMAIN cycles :
          (Failed(c) /\ imgInfo # << >>) => imgInfo' = imgInfo]_vars

(* C7: a live cycle that completes successfully sets imgInfo to the
   mirror-extended motif if and only if the total width is strictly
   greater than 300 cm, and to the plain motif otherwise. *)
C7_MirrorIffWiderThan300 ==
    [][\A c \in DOMAIN cycles :
          (/\ cycles[c].isMounted
           /\ cycles[c].pc # "done"
           /\ cycles'[c].pc = "done"
           /\ ~cycles'[c].logged)
              => (/\ imgInfo' # << >>
                  /\ imgInfo'[1].url.src = motifUrl
                  /\ (imgInfo'[1].url.layers > 0) <=> (virtual.totalW > 3000))]_vars

(* a row wider than 300 cm whose mirror-extended motif has arrived *)
C7_Witness ==
    /\ lastOp.name = "loadExtendedResolved"
    /\ lastOp.changed
    /\ imgInfo # << >>
    /\ imgInfo[1].url.layers > 1
    /\ virtual.totalW > 3000
    /\ virtual.totalW < 3500

RECURSIVE SumOfWidths(_, _)
SumOfWidths(ps, n) ==
    IF n = 0 THEN 0 ELSE SumOfWidths(ps, n - 1) + ps[n].widthCm

GreatestHeight(ps) ==
    CHOOSE h \in { ps[k].heightCm : k \in 1..Len(ps) } :
        \A k \in 1..Len(ps) : ps[k].heightCm <= h

PlatesInDomain(ps) ==
    /\ Len(ps) >= 1 /\ Len(ps) <= 10
    /\ \A k \in 1..Len(ps) :
          /\ ps[k].widthCm >= 200 /\ ps[k].widthCm <= 3000
          /\ ps[k].heightCm >= 300 /\ ps[k].heightCm <= 1280

(* C10: for every plate sequence of 1 to 10 plates with widths in
   [20, 300] cm and heights in [30, 128] cm, the virtual canvas of the
   mounted preview has totalW equal to the sum of the widths and maxH
   equal to the greatest height of the current sequence, after every
   change to it. *)
C10_VirtualIsSumAndMax ==
    (mounted /\ PlatesInDomain(plates))
        => (/\ virtual.totalW = SumOfWidths(plates, Len(plates))
            /\ virtual.maxH = GreatestHeight(plates))

(* a plate of a longer row was just edited, and it is not the tallest *)
C10_Witness ==
    /\ lastOp.name = "updatePlate"
    /\ mounted
    /\ Len(plates) = 10
    /\ PlatesInDomain(plates)
    /\ virtual.maxH > plates[1].heightCm
    /\ plates[1].widthCm = 3000

(* the offsets of the current render *)
offsets == OffsetsOf(plates, virtual.maxH)

(* C11: for every plate i of the mounted preview, x0 is the sum of the
   widths of the plates before i and y0 is maxH - height_i, so that
   y0 + height_i = maxH for every i and each plate's x-interval starts
   where the previous one ends; plates 120x60 and 100x40 get the offsets
   (0, 0) and (120, 20). *)
C11_OffsetsAbutOnBaseline ==
    mounted =>
        /\ Len(offsets) = Len(plates)
        /\ \A i \in 1..Len(plates) :
              /\ offsets[i].x0 = SumOfWidths(plates, i - 1)
              /\ offsets[i].y0 = virtual.maxH - plates[i].heightCm
              /\ offsets[i].y0 + plates[i].heightCm = virtual.maxH
        /\ offsets[1].x0 = 0
        /\ \A i \in 1..(Len(plates) - 1) :
              offsets[i + 1].x0 = offsets[i].x0 + plates[i].widthCm
        /\ (/\ Len(plates) = 2
            /\ <<plates[1].widthCm, plates[1].heightCm>> = <<1200, 600>>
            /\ <<plates[2].widthCm, plates[2].heightCm>> = <<1000, 400>>)
              => offsets = << [x0 |-> 0, y0 |-> 0], [x0 |-> 1200, y0 |-> 200] >>

(* the two plates of the example, the shorter one moved to the front *)
C11_Witness ==
    /\ mounted
    /\ lastOp.name = "movePlate"
    /\ lastOp.changed
    /\ Len(plates) = 2
    /\ plates[1].heightCm = 400
    /\ plates[2].heightCm = 600
    /\ offsets = << [x0 |-> 0, y0 |-> 200], [x0 |-> 1000, y0 |-> 0] >>

(* what a report tells the program and the user: the state it left and
   the channel and text of each call, without the exception object that
   console.error is handed *)
Shown(r) ==
    [after |-> r.after,
     said |-> [k \in DOMAIN r.said |->
                  [channel |-> r.said[k].channel, text |-> r.said[k].text]]]

(* C14: a failure caused by blocked cross-origin pixel access (toDataURL
   throwing in mirrorExtendHorizontal or in handleExport) has an outcome
   that differs from that of an image load failure: of two reports of the
   same catch block from the same imgInfo, one for a SecurityError and one
   for a rejected loadImage, the resulting imgInfo or the reported text
   differ. *)
C14_TaintDistinctFromLoadFailure ==
    \A r1, r2 \in reports :
        (/\ r1.site = r2.site
         /\ r1.before = r2.before
         /\ r1.error = "securityError"
         /\ r2.error = "loadError")
            => Shown(r1) # Shown(r2)

ExportSteps == { "handleExport", "exportLoadResolved", "exportLoadRejected" }

(* C15: every step of handleExport (the early return without imgInfo, a
   success, a failure of the context, of the image reload or of toDataURL)
   leaves imgInfo, the plate sequence and motifUrl unchanged, and with
   them the virtual canvas shown. *)
C15_ExportLeavesPreviewUnchanged ==
    [][lastOp'.name \in ExportSteps
          => UNCHANGED <<imgInfo, plates, motifUrl, virtual>>]_vars

(* an export of a resolved motif whose toDataURL threw *)
C15_Witness ==
    /\ lastOp.name = "exportLoadResolved"
    /\ exports[lastOp.a].outcome = "securityError"
    /\ imgInfo # << >>
    /\ \E r \in reports : r.site = "export" /\ r.after = imgInfo

(* the steps of a cycle in the order the claim gives them *)
StepRank(step) ==
    CASE step = "loadMotif" -> 1
      [] step = "mirrorExtend" -> 2
      [] step = "loadExtended" -> 3
      [] step = "setImgInfo" -> 4

(* cycle c has written a resolved motif, not the null of a failure *)
WroteMotif(c) == cycles[c].setCalls > 0 /\ ~cycles[c].logged

(* C22: each motif-resolution cycle calls setImgInfo at most once, on
   every path (plain motif, extended motif, failure); its steps follow one
   another in the order load motif, mirror-extend, load extended image,
   write imgInfo, none of them twice; a cycle that writes the extended
   motif has gone through all four, and a cycle that does not mirror never
   mirror-extends nor loads an extended image. *)
C22_OneWriteInOrder ==
    \A c \in DOMAIN cycles :
        LET st == cycles[c].steps
        IN /\ cycles[c].setCalls <= 1
           /\ cycles[c].setCalls
                 = Cardinality({ k \in DOMAIN st : st[k] = "setImgInfo" })
           /\ \A j, k \in DOMAIN st : j < k => StepRank(st[j]) < StepRank(st[k])
           /\ (WroteMotif(c) /\ cycles[c].totalW > 3000)
                 => st = << "loadMotif", "mirrorExtend", "loadExtended",
                            "setImgInfo" >>
           /\ cycles[c].totalW <= 3000
                 => \A k \in DOMAIN st : st[k] \in { "loadMotif", "setImgInfo" }

(* a mirroring cycle went through its four steps while an earlier cycle
   failed with its single write *)
C22_Witness ==
    /\ Len(cycles) = 2
    /\ cycles[2].steps = << "loadMotif", "mirrorExtend", "loadExtended",
                            "setImgInfo" >>
    /\ WroteMotif(2)
    /\ cycles[1].steps = << "loadMotif", "setImgInfo" >>
    /\ cycles[1].logged

(* every cycle started so far has run to its end *)
AllSettled == \A c \in DOMAIN cycles : cycles[c].pc = "done"

(* what the cycle for motif u on a canvas of totalW by maxH resolves to *)
ResultFor(u, totalW, maxH) ==
    IF totalW > 3000 THEN ExtendedInfo(u, totalW, maxH) ELSE PlainInfo(u)

(* C23: for any sequence of changes to motifUrl, totalW and maxH and any
   order in which the started loads complete, once every started cycle has
   settled and the most recently started cycle succeeded, imgInfo of the
   mounted preview holds the result of that cycle, derived from the latest
   motifUrl, totalW and maxH; it is not null and not an older cycle's
   result. *)
C23_LatestCycleWins ==
    (mounted /\ AllSettled /\ WroteMotif(Len(cycles)))
        => /\ imgInfo # << >>
           /\ imgInfo[1] = ResultFor(motifUrl, virtual.totalW, virtual.maxH)

(* t is min(ceil(x / d), cap) for d > 0 *)
IsCappedCeiling(t, x, d, cap) ==
    IF x > cap * d THEN t = cap
    ELSE t * d >= x /\ (t - 1) * d < x

(* C19: when mirroring triggers, the target width passed to
   mirrorExtendHorizontal is min(ceil(imageH * totalW / max(1, maxH)),
   8192), imageH being the motif's intrinsic pixel height; for totalW 350
   and maxH 60 it is ceil(imageH * 350 / 60) capped at 8192.  A cycle that
   does not mirror passes nothing. *)
C19_TargetIsCappedNeededWidth ==
    \A c \in DOMAIN cycles :
        LET imageH == ImageSize(cycles[c].motifUrl).h
        IN /\ cycles[c].target # 0
                => /\ cycles[c].totalW > 3000
                   /\ IsCappedCeiling(cycles[c].target, imageH * cycles[c].totalW,
                                       IF cycles[c].maxH >= 10 THEN cycles[c].maxH
                                       ELSE 10,
                                       8192)
           /\ (cycles[c].target # 0 /\ cycles[c].totalW = 3500
                  /\ cycles[c].maxH = 600)
                => IsCappedCeiling(cycles[c].target, imageH * 350, 60, 8192)
           /\ cycles[c].pc = "loadExtended" => cycles[c].target # 0
           /\ cycles[c].totalW <= 3000 => cycles[c].target = 0

(* the example: 350 cm by 60 cm and an 800 px high motif give 4667 px, and
   the extended motif has arrived *)
C19_Witness ==
    /\ lastOp.name = "loadExtendedResolved"
    /\ cycles[lastOp.a].totalW = 3500
    /\ cycles[lastOp.a].maxH = 600
    /\ cycles[lastOp.a].target = 4667
    /\ imgInfo # << >>
    /\ imgInfo[1].url.layers = 4

(* px is min(max(1, t * 8 / 10 rounded to a whole number), 8000) *)
IsRasterSize(px, t) ==
    IF 8 * t + 5 >= 80000 THEN px = 8000
    ELSE IF 8 * t + 5 < 20 THEN px = 1
    ELSE 10 * px <= 8 * t + 5 /\ 8 * t + 5 < 10 * px + 10

(* C20: the export raster is min(totalW * 8, 8000) pixels wide and
   min(maxH * 8, 8000) pixels high, each rounded to a whole pixel and at
   least 1, so that neither dimension exceeds 8000. *)
C20_ExportRasterWithin8000 ==
    \A x \in DOMAIN exports :
        /\ IsRasterSize(exports[x].W, exports[x].totalW)
        /\ IsRasterSize(exports[x].H, exports[x].maxH)
        /\ exports[x].W <= 8000
        /\ exports[x].H <= 8000

(* a 1200 cm row exported: 9600 px are cut to 8000 *)
C20_Witness ==
    /\ lastOp.name = "exportLoadResolved"
    /\ exports[lastOp.a].outcome = "downloaded"
    /\ exports[lastOp.a].totalW = 12000
    /\ exports[lastOp.a].W = 8000
    /\ exports[lastOp.a].H = 803

(* export x has run its plate loop *)
DrewPlates(x) ==
    exports[x].pc = "done" /\ exports[x].outcome \in { "downloaded", "securityError" }

(* C27: for every plate sequence allowed by the store (1 to 10 plates,
   widths in [20, 300], heights in [30, 128]), every plate's pixel
   rectangle of handleExport (x = 8 * sum of the preceding widths,
   y = 8 * (maxH - height), w = 8 * width, h = 8 * height) lies entirely
   inside the export canvas.  Rectangles are in tenths of a pixel. *)
C27_PlateRectsInsideCanvas ==
    \A x \in DOMAIN exports :
        (DrewPlates(x) /\ PlatesInDomain(exports[x].plates))
            => \A k \in DOMAIN exports[x].rects :
                  LET r == exports[x].rects[k]
                  IN /\ r.x = 8 * SumOfWidths(exports[x].plates, k - 1)
                     /\ r.y = 8 * (exports[x].maxH - exports[x].plates[k].heightCm)
                     /\ r.x >= 0 /\ r.y >= 0
                     /\ r.x + r.w <= 10 * exports[x].W
                     /\ r.y + r.h <= 10 * exports[x].H

(* the mirroring cycle c has just written its extended motif *)
JustExtended(c) ==
    /\ mounted
    /\ lastOp.name = "loadExtendedResolved"
    /\ lastOp.a = c
    /\ WroteMotif(c)
    /\ imgInfo # << >>

(* for cycle c neither 8192 px cap binds: the needed width
   ceil(imageH * totalW / maxH) is at most floor(8192 / imageW) * imageW *)
CapDoesNotBind(c) ==
    LET img == ImageSize(cycles[c].motifUrl)
    IN CeilDiv(img.h * cycles[c].totalW, cycles[c].maxH)
          <= (8192 \div img.w) * img.w

(* C28: when mirroring triggers and the 8192 px cap does not bind, the
   extended motif's aspect ratio is at least totalW / maxH, so that
   computeCover on the extended motif gives scale = maxH / imageH,
   offsetY = 0 and scaledW >= totalW: the motif is fitted by height. *)
C28_ExtendedMotifFittedByHeight ==
    \A c \in DOMAIN cycles :
        (JustExtended(c) /\ CapDoesNotBind(c))
            => LET cov == CoverOfRender(imgInfo[1], virtual)
                   imageH == ImageSize(cycles[c].motifUrl).h
               IN /\ cycles[c].totalW > 3000
                  /\ imgInfo[1].w * virtual.maxH >= virtual.totalW * imgInfo[1].h
                  /\ imgInfo[1].h = imageH
                  /\ cov.scale = Rat(virtual.maxH, 10 * imageH)
                  /\ cov.offsetY = RatOfInt(0)
                  /\ RatLe(Rat(virtual.totalW, 10), cov.scaledW)

(* 350 cm by 60 cm and the 1200 x 800 motif: four tiles, 4800 px, scale
   0.075, scaled width 360 cm, 5 cm cropped on each side *)
C28_Witness ==
    /\ JustExtended(Len(cycles))
    /\ CapDoesNotBind(Len(cycles))
    /\ virtual = [totalW |-> 3500, maxH |-> 600]
    /\ imgInfo[1].w = 4800
    /\ CoverOfRender(imgInfo[1], virtual).scale = Rat(3, 40)
    /\ CoverOfRender(imgInfo[1], virtual).scaledW = RatOfInt(360)
    /\ CoverOfRender(imgInfo[1], virtual).offsetX = RatOfInt(5)

----------------------------------------------------------------------------
(* Claims about computeCover, checked under SpecCover *)

Zero == RatOfInt(0)

PositiveArgs == \A i \in 1..4 : RatLt(Zero, coverArgs[i])

(* C8: for all positive imageW, imageH, canvasW, canvasH the scaled image
   is at least as large as the canvas on both axes, both offsets are >= 0,
   and at least one of the two offsets is 0. *)
C8_CoverLeavesNoGap ==
    (cover # << >> /\ PositiveArgs)
        => (/\ RatLe(coverArgs[3], cover[1].scaledW)
            /\ RatLe(coverArgs[4], cover[1].scaledH)
            /\ RatLe(Zero, cover[1].offsetX)
            /\ RatLe(Zero, cover[1].offsetY)
            /\ (cover[1].offsetX = Zero \/ cover[1].offsetY = Zero))

(* an image wider than the canvas is tall: fitted by height, cropped left
   and right *)
C8_Witness ==
    /\ cover # << >>
    /\ PositiveArgs
    /\ coverArgs = << RatOfInt(400), RatOfInt(300), RatOfInt(61), RatOfInt(60) >>
    /\ cover[1].offsetY = Zero
    /\ RatLt(Zero, cover[1].offsetX)

(* the mapping the claim describes, with guard g applied to the image
   dimensions and every canvas dimension raised to at least 1 *)
ReferenceCover(g(_), a) ==
    LET iw == g(a[1])
        ih == g(a[2])
        cw == RatMax(RatOfInt(1), a[3])
        ch == RatMax(RatOfInt(1), a[4])
        scale == RatMax(RatDiv(cw, iw), RatDiv(ch, ih))
    IN [scale |-> scale,
        scaledW |-> RatMul(iw, scale),
        scaledH |-> RatMul(ih, scale),
        offsetX |-> RatMul(RatSub(RatMul(iw, scale), cw), Rat(1, 2)),
        offsetY |-> RatMul(RatSub(RatMul(ih, scale), ch), Rat(1, 2))]

RaiseToOne(x) == RatMax(RatOfInt(1), x)
TruncateThenRaiseToOne(x) ==
    RatMax(RatOfInt(1),
           RatOfInt(IF RatLe(Zero, x) THEN x[1] \div x[2] ELSE -((-x[1]) \div x[2])))

Example400x300on220x60 ==
    coverArgs = << RatOfInt(400), RatOfInt(300), RatOfInt(220), RatOfInt(60) >>
        => cover[1] = [scale |-> Rat(55, 100), scaledW |-> RatOfInt(220),
                       scaledH |-> RatOfInt(165), offsetX |-> Zero,
                       offsetY |-> Rat(525, 10)]

(* C9 as stated: computeCover equals the reference mapping in which each
   of the four inputs is first raised to at least 1; image 400x300 on
   canvas 220x60 gives scale 0.55, 220 x 165, offsets 0 and 52.5. *)
C9_CoverEqualsReference ==
    cover # << >>
        => (/\ cover[1] = ReferenceCover(RaiseToOne, coverArgs)
            /\ Example400x300on220x60)

(* C9 as amended: computeCover equals the reference mapping in which the
   image width and height are first cut off to whole numbers (toward zero)
   and then raised to at least 1, and the canvas width and height are
   raised to at least 1; the example is as stated. *)
C9_CoverEqualsTruncatingReference ==
    cover # << >>
        => (/\ cover[1] = ReferenceCover(TruncateThenRaiseToOne, coverArgs)
            /\ Example400x300on220x60)

(* the example of the claim has been computed *)
C9_Witness ==
    /\ cover # << >>
    /\ coverArgs = << RatOfInt(400), RatOfInt(300), RatOfInt(220), RatOfInt(60) >>
    /\ cover[1].scale = Rat(11, 20)
    /\ cover[1].offsetY = Rat(105, 2)

----------------------------------------------------------------------------
(* Claims about mirrorExtendHorizontal, checked under SpecMirror *)

Produced == mirrorOut # << >> /\ mirrorOut[1].outcome = "dataUrl"

(* C12: for every source width >= 1, target width and maxWidth, the width
   of the bitmap mirrorExtendHorizontal produces exceeds neither maxWidth
   nor maxWidth rounded down to a multiple of the source width, also when
   the source is wider than maxWidth. *)
C12_WidthWithinMaxWidth ==
    Produced =>
        /\ mirrorOut[1].width <= mirrorArgs.maxWidth
        /\ mirrorOut[1].width
              <= (mirrorArgs.maxWidth \div mirrorArgs.unit) * mirrorArgs.unit

(* w is the smallest positive multiple of u that is >= t *)
SmallestMultipleAtLeast(w, u, t) ==
    /\ w % u = 0
    /\ w >= u
    /\ w >= t
    /\ (w = u \/ w - u < t)

(* w is the largest positive multiple of u that is <= m, or u itself when
   u is greater than m *)
LargestMultipleAtMost(w, u, m) ==
    /\ w % u = 0
    /\ w >= u
    /\ (w = u \/ w <= m)
    /\ w + u > m

(* some positive multiple of u lies in t..m *)
MultipleWithin(u, t, m) ==
    \E k \in 1..(m \div u) : k * u >= t

(* C13 as stated: for every targetWidth <= maxWidth the width of the
   bitmap is the smallest multiple of the source width that is
   >= min(targetWidth, maxWidth). *)
C13_WidthIsSmallestMultiple ==
    (Produced /\ mirrorArgs.targetWidth <= mirrorArgs.maxWidth)
        => SmallestMultipleAtLeast(mirrorOut[1].width, mirrorArgs.unit,
                                   Min(mirrorArgs.targetWidth, mirrorArgs.maxWidth))

(* C13 as amended: for every targetWidth <= maxWidth the width of the
   bitmap is the smallest positive multiple of the source width that is
   >= targetWidth when that multiple is <= maxWidth; otherwise it is the
   largest positive multiple of the source width that is <= maxWidth, or
   one source width when the source is wider than maxWidth. *)
C13_WidthIsSmallestMultipleWithinCap ==
    (Produced /\ mirrorArgs.targetWidth <= mirrorArgs.maxWidth)
        => IF MultipleWithin(mirrorArgs.unit, mirrorArgs.targetWidth,
                             mirrorArgs.maxWidth)
           THEN SmallestMultipleAtLeast(mirrorOut[1].width, mirrorArgs.unit,
                                        mirrorArgs.targetWidth)
           ELSE LargestMultipleAtMost(mirrorOut[1].width, mirrorArgs.unit,
                                      mirrorArgs.maxWidth)

(* a 1200 px source, target and cap both 8192: six tiles, 7200 px *)
C13_Witness ==
    /\ Produced
    /\ mirrorArgs = [unit |-> 1200, targetWidth |-> 8192, maxWidth |-> 8192]
    /\ mirrorOut[1].layers = 6
    /\ mirrorOut[1].width = 7200

----------------------------------------------------------------------------
(* Claims about the preview scale, checked under SpecScale *)

FiniteViewport == scaleArgs.width # NaN /\ scaleArgs.height # NaN

(* min((viewportW - 2 * 12) / totalW, (viewportH - 2 * 12) / maxH), with
   totalW and maxH in tenths of a centimetre *)
FitScale ==
    RatMin(Rat((scaleArgs.width - 24) * 10, scaleArgs.totalW),
           Rat((scaleArgs.height - 24) * 10, scaleArgs.maxH))

(* C18 as stated: the preview scale is min((viewportW - 24) / totalW,
   (viewportH - 24) / maxH), and it is 1 when that computation gives no
   finite result, for example for a zero-size viewport. *)
C18_ScaleIsFitOrOne ==
    scaleOut # << >> =>
        /\ FiniteViewport /\ <<scaleArgs.width, scaleArgs.height>> # <<0, 0>>
              => scaleOut[1].scale = FitScale
        /\ (~FiniteViewport \/ <<scaleArgs.width, scaleArgs.height>> = <<0, 0>>)
              => scaleOut[1].scale = RatOfInt(1)

(* C18 as amended: for a viewport of at least 24 px on both axes and a
   virtual canvas of at least 1 cm on both axes the preview scale is
   min((viewportW - 24) / totalW, (viewportH - 24) / maxH); a virtual
   dimension below 1 cm counts as 1 cm; for a finite viewport smaller than
   24 px on either axis, the zero-size viewport included, the scale is 0;
   it is 1 only when the measured size is not finite. *)
C18_ScaleIsClampedFit ==
    scaleOut # << >> =>
        /\ (/\ FiniteViewport
            /\ scaleArgs.width >= 24 /\ scaleArgs.height >= 24
            /\ scaleArgs.totalW >= 10 /\ scaleArgs.maxH >= 10)
              => scaleOut[1].scale = FitScale
        /\ (/\ FiniteViewport
            /\ scaleArgs.width >= 24 /\ scaleArgs.height >= 24
            /\ scaleArgs.totalW < 10 /\ scaleArgs.maxH < 10)
              => scaleOut[1].scale =
                    RatMin(RatOfInt(scaleArgs.width - 24),
                           RatOfInt(scaleArgs.height - 24))
        /\ (FiniteViewport /\ (scaleArgs.width < 24 \/ scaleArgs.height < 24))
              => scaleOut[1].scale = Zero
        /\ FiniteViewport <=> ~scaleOut[1].fallback
        /\ ~FiniteViewport => scaleOut[1].scale = RatOfInt(1)

(* the size before the first measurement, 0 by 0: the scale is 0 *)
C18_Witness ==
    /\ scaleOut # << >>
    /\ scaleArgs.width = 0
    /\ scaleArgs.height = 0
    /\ scaleArgs.totalW = 2200
    /\ scaleOut[1].scale = Zero
    /\ ~scaleOut[1].fallback

----------------------------------------------------------------------------
(* Claims about the tile loop, checked under SpecTiles *)

(* the source column the claim gives for output column x *)
SourceColumn(x, u) ==
    IF (x \div u) % 2 = 0 THEN x % u ELSE u - 1 - (x % u)

(* C21: in the bitmap of mirrorExtendHorizontal, output column x shows
   source column x mod unit when the tile index floor(x / unit) is even
   and source column unit - 1 - (x mod unit) when it is odd, for every
   column of every tile drawn so far; hence the two columns on either side
   of a boundary between two drawn tiles show the same source column. *)
C21_TilesAlternateWithoutSeam ==
    strip # << >> =>
        LET u == mirrorArgs.unit
            cols == strip[1].columns
        IN /\ \A x \in 0..(strip[1].i * u - 1) :
                 cols[x + 1] = SourceColumn(x, u)
           /\ \A k \in 1..(strip[1].i - 1) :
                 cols[k * u] = cols[k * u + 1]
           /\ strip[1].i = strip[1].layers => Len(cols) = strip[1].layers * u

(* three tiles of a 3 px source: 0 1 2, 2 1 0, 0 1 2 *)
C21_Witness ==
    /\ Produced
    /\ mirrorArgs.unit = 3
    /\ strip # << >>
    /\ strip[1].layers = 3
    /\ strip[1].columns = << 0, 1, 2, 2, 1, 0, 0, 1, 2 >>

----------------------------------------------------------------------------
(* Claims about the placement of the motif, checked under SpecPlacement *)

(* C29: the preview and the export place the motif at the same position
   of the virtual canvas for every plate.  For each plate i, plate left +
   background-position x is -offsetX times the preview scale and
   y0 * scale + background-position y is -offsetY times the preview
   scale; where the scale is not 0, dividing by it gives -offsetX and
   -offsetY of the cover mapping, the same for all plates, and the same as
   the export's image origin divided by its density of 8. *)
C29_PreviewAndExportAgree ==
    placed.styles # << >> =>
        LET cov == CoverOfRender(imgInfo[1], virtual)
            sc == scaleOut[1].scale
            offs == OffsetsOf(plates, virtual.maxH)
        IN /\ Len(placed.styles) = Len(plates)
           /\ \A i \in 1..Len(plates) :
                 LET st == placed.styles[i]
                     top == RatMul(Cm(offs[i].y0), sc)
                 IN /\ st.left = RatMul(Cm(SumOfWidths(plates, i - 1)), sc)
                    /\ RatAdd(st.left, st.posX) = RatMul(RatNeg(cov.offsetX), sc)
                    /\ RatAdd(top, st.posY) = RatMul(RatNeg(cov.offsetY), sc)
                    /\ sc # RatOfInt(0) =>
                          /\ RatDiv(RatAdd(st.left, st.posX), sc) = RatNeg(cov.offsetX)
                          /\ RatDiv(RatAdd(top, st.posY), sc) = RatNeg(cov.offsetY)
                          /\ placed.drawn # << >> =>
                                /\ RatDiv(RatAdd(st.left, st.posX), sc)
                                      = RatDiv(placed.drawn[1].sx, RatOfInt(8))
                                /\ RatDiv(RatAdd(top, st.posY), sc)
                                      = RatDiv(placed.drawn[1].sy, RatOfInt(8))

(* the two plates 120 x 60 and 100 x 40 in a box 324 px wide, on the
   1200 x 800 motif: scale 15/11 px per cm, 43.33 cm cropped above and
   below; the second plate's background starts 163.6 px left of it *)
C29_Witness ==
    /\ placed.styles # << >>
    /\ placed.drawn # << >>
    /\ Len(plates) = 2
    /\ virtual = [totalW |-> 2200, maxH |-> 600]
    /\ imgInfo[1].w = 1200
    /\ scaleOut[1].scale = Rat(15, 11)
    /\ placed.styles[2].left = Rat(1800, 11)
    /\ placed.styles[2].posX = Rat(-1800, 11)
    /\ placed.drawn[1].sx = RatOfInt(0)
    /\ placed.drawn[1].sy = Rat(-1040, 3)

====
